---- MODULE Spec2Model ----
(***************************************************************************)
(* A model of bot.py: the lookup-and-group-format engine (digits_only,     *)
(* col_to_a1, find_rows_in_col, format_*_grouped, send_grouped) and the    *)
(* handlers around it (start, help_cmd, router) with the per-user session  *)
(* store and the allow-list.                                               *)
(*                                                                         *)
(* Strings.  A Python str is a sequence of runs [c |-> t, n |-> k]: k      *)
(* copies of the text t.  Text typed by a user or read from a short cell   *)
(* is one run of n = 1 per character; a long cell carries one run with a   *)
(* large n; the fixed label and reply texts of the program are one run     *)
(* whose c is the whole literal.  The literals are read as UTF-8 text;     *)
(* Cyrillic letters of the labels are written in Latin letters, one for    *)
(* one, and an emoji code point as "#", so that every literal keeps the    *)
(* length Python's len() gives it.                                         *)
(***************************************************************************)
EXTENDS Integers, Sequences, FiniteSets, TLC

VARIABLES
    ALLOWED_IDS,  \* the allow-list, fixed at process start
    user_data,    \* context.user_data["mode"] of every user
    pc,           \* "idle": waiting for an update; "done": a handler returned
    upd,          \* the update the last handler was called with
    remote,       \* the worksheet as it was while that handler ran
    sent,         \* the messages that handler sent, in order
    reads,        \* the range reads that handler issued, in order
    err           \* the exception the router caught: "none", "remote", "IndexError"

vars == <<ALLOWED_IDS, user_data, pc, upd, remote, sent, reads, err>>

-----------------------------------------------------------------------------
(* Strings *)

Run(c, n) == [c |-> c, n |-> n]
Chars(t) == [i \in 1..Len(t) |-> Run(t[i], 1)]
Lit(s) == <<Run(s, 1)>>
NL == "\n"
NLs == <<Run(NL, 1)>>
Whitespace == {" ", NL, "\t"}
DigitChars == <<"0", "1", "2", "3", "4", "5", "6", "7", "8", "9">>
UPPER == <<"A", "B", "C", "D", "E", "F", "G", "H", "I", "J", "K", "L", "M",
           "N", "O", "P", "Q", "R", "S", "T", "U", "V", "W", "X", "Y", "Z">>
LOWER == <<"a", "b", "c", "d", "e", "f", "g", "h", "i", "j", "k", "l", "m",
           "n", "o", "p", "q", "r", "s", "t", "u", "v", "w", "x", "y", "z">>
Range(f) == {f[i] : i \in DOMAIN f}
Letters == Range(UPPER)
Digits == Range(DigitChars)
IndexOf(seq, x) == CHOOSE i \in DOMAIN seq : seq[i] = x

\* The characters of runs lo..hi of s, counted as len() counts them
RECURSIVE Width(_, _, _)
Width(s, lo, hi) ==
    IF lo > hi THEN 0
    ELSE IF lo = hi THEN Len(s[lo].c) * s[lo].n
    ELSE Width(s, lo, (lo + hi) \div 2) + Width(s, ((lo + hi) \div 2) + 1, hi)
\* len(s)
StrLen(s) == Width(s, 1, Len(s))
\* The characters before run i of s
Before(s, i) == Width(s, 1, i - 1)
\* The sequences f[lo], ..., f[hi] one after the other
RECURSIVE Concat(_, _, _)
Concat(f, lo, hi) ==
    IF lo > hi THEN <<>>
    ELSE IF lo = hi THEN f[lo]
    ELSE Concat(f, lo, (lo + hi) \div 2) \o Concat(f, ((lo + hi) \div 2) + 1, hi)
Flat(f) == Concat(f, 1, Len(f))
\* The copies of s[i].c from run i on, over the adjacent runs of that text
RECURSIVE GroupLen(_, _)
GroupLen(s, i) ==
    s[i].n + (IF i < Len(s) /\ s[i + 1].c = s[i].c THEN GroupLen(s, i + 1) ELSE 0)
Canon(s) ==
    {<<Before(s, i), s[i].c, GroupLen(s, i)>> :
        i \in {j \in 1..Len(s) : j = 1 \/ s[j - 1].c # s[j].c}}
\* The canonical form of a string, the same for every way of cutting it into runs:
\* where each maximal stretch of one text starts, and how many copies it holds.
Norm(s) == Canon(SelectSeq(s, LAMBDA r : r.n > 0))

\* str(n) of an integer
RECURSIVE NatStr(_)
NatStr(n) ==
    IF n < 10 THEN Chars(<<DigitChars[n + 1]>>)
    ELSE NatStr(n \div 10) \o Chars(<<DigitChars[(n % 10) + 1]>>)
IntStr(n) == IF n < 0 THEN Chars(<<"-">>) \o NatStr(0 - n) ELSE NatStr(n)

\* s.lower()
LowerChar(ch) == IF ch \in Letters THEN LOWER[IndexOf(UPPER, ch)] ELSE ch
Lower(s) == [i \in 1..Len(s) |-> Run(LowerChar(s[i].c), s[i].n)]

\* s.strip()
RECURSIVE LStrip(_)
LStrip(s) ==
    IF s # <<>> /\ (s[1].c \in Whitespace \/ s[1].n = 0) THEN LStrip(Tail(s)) ELSE s
RECURSIVE RStrip(_)
RStrip(s) ==
    IF s # <<>> /\ (s[Len(s)].c \in Whitespace \/ s[Len(s)].n = 0)
    THEN RStrip(SubSeq(s, 1, Len(s) - 1)) ELSE s
Strip(s) == RStrip(LStrip(s))

\* sep.join(parts) with sep = "\n"
JoinNL(parts) ==
    Flat([i \in 1..Len(parts) |-> IF i = 1 THEN parts[i] ELSE NLs \o parts[i]])

\* s.split("\n")
\* s with every newline a run of its own
OneNL(s) ==
    Flat([i \in 1..Len(s) |->
             IF s[i].c = NL THEN [k \in 1..s[i].n |-> Run(NL, 1)] ELSE <<s[i]>>])
Breaks(s) == {i \in 1..Len(s) : s[i].c = NL}
\* The k-th smallest member of S, and S \cup {0} counted from 0
Nth(S, k) == CHOOSE x \in S : Cardinality({y \in S : y < x}) = k - 1
BreakAt(B, k) == IF k = 0 THEN 0 ELSE Nth(B, k)
\* The pieces of s between the breaks B
Pieces(s, B) ==
    [k \in 1..(Cardinality(B) + 1) |->
        SubSeq(s, BreakAt(B, k - 1) + 1,
               IF k > Cardinality(B) THEN Len(s) ELSE BreakAt(B, k) - 1)]
Lines(s) == Pieces(s, Breaks(s))
SplitNL(s) == Lines(OneNL(s))

\* s.replace(ch, repl) for a one-character ch
Repeat(s, n) == Flat([k \in 1..n |-> s])
Replace(s, ch, repl) ==
    Flat([i \in 1..Len(s) |-> IF s[i].c = ch THEN Repeat(repl, s[i].n) ELSE <<s[i]>>])

-----------------------------------------------------------------------------
(* Configuration *)

SHEET_SUN == "sun hightech baza"
SHEET_GREEN == "Faktura i zayavka"
COL_Q_SUN == 17
COL_P_GREEN == 16
SUN_RANGES ==
    << <<Chars(<<"B">>), Chars(<<"L">>)>>, <<Chars(<<"O">>), Chars(<<"Q">>)>>,
       <<Chars(<<"S">>), Chars(<<"S">>)>> >>
GREEN_RANGES ==
    << <<Chars(<<"B">>), Chars(<<"H">>)>>, <<Chars(<<"R">>), Chars(<<"R">>)>>,
       <<Chars(<<"S">>), Chars(<<"S">>)>>, <<Chars(<<"A", "A">>), Chars(<<"A", "A">>)>> >>

-----------------------------------------------------------------------------
(* Helpers *)

\* digits_only: re.sub(r"\D+", "", str(s or ""))
digits_only(s) == SelectSeq(s, LAMBDA r : r.c \in Digits /\ r.n > 0)

\* col_to_a1: the while loop, most significant letter first
RECURSIVE col_to_a1(_)
col_to_a1(col_idx) ==
    IF col_idx > 0
    THEN col_to_a1((col_idx - 1) \div 26) \o Chars(<<UPPER[((col_idx - 1) % 26) + 1]>>)
    ELSE <<>>

\* esc: three replacements, "&" first
esc(s) ==
    Replace(Replace(Replace(s, "&", Chars(<<"&", "a", "m", "p", ";">>)),
                    "<", Chars(<<"&", "l", "t", ";">>)),
            ">", Chars(<<"&", "g", "t", ";">>))

\* a1: f"{c1}{row}:{c2}{row}"
a1(row, c1, c2) == c1 \o IntStr(row) \o Chars(<<":">>) \o c2 \o IntStr(row)

\* flatten: the first row of every block that has one
RECURSIVE flatten(_)
flatten(blocks) ==
    IF blocks = <<>> THEN <<>>
    ELSE (IF blocks[1] # <<>> /\ blocks[1][1] # <<>> THEN blocks[1][1] ELSE <<>>)
         \o flatten(Tail(blocks))

-----------------------------------------------------------------------------
(* The remote spreadsheet, as gspread shows it to the program.  A workbook  *)
(* maps a sheet name to a grid; a grid is the sequence of the sheet's data  *)
(* rows, grid[i] being sheet row i + 1 (row 1 holds the column titles), and *)
(* a row maps a column index to the cell's display text ("" when empty).    *)

NCols == 27
HARD_LIMIT == 4000
SOFT_LIMIT == 3900

RECURSIVE A1ToCol(_)
A1ToCol(letters) ==
    IF letters = <<>> THEN 0
    ELSE A1ToCol(SubSeq(letters, 1, Len(letters) - 1)) * 26
         + IndexOf(UPPER, letters[Len(letters)].c)
RECURSIVE StrNat(_)
StrNat(digits) ==
    IF digits = <<>> THEN 0
    ELSE StrNat(SubSeq(digits, 1, Len(digits) - 1)) * 10
         + (IndexOf(DigitChars, digits[Len(digits)].c) - 1)
RECURSIVE TakeWhile(_, _)
TakeWhile(s, set) ==
    IF s # <<>> /\ s[1].c \in set THEN <<s[1]>> \o TakeWhile(Tail(s), set) ELSE <<>>
DropN(s, n) == SubSeq(s, n + 1, Len(s))

\* One corner of an A1 range: [col, row, rest], row = 0 when the corner names no row.
ParseCorner(s) ==
    LET letters == TakeWhile(s, Letters)
        s1 == DropN(s, Len(letters))
        digits == TakeWhile(s1, Digits)
    IN [col |-> A1ToCol(letters), row |-> StrNat(digits), rest |-> DropN(s1, Len(digits))]
ParseA1(rng) ==
    LET a == ParseCorner(rng)
        b == ParseCorner(DropN(a.rest, 1))
    IN [c1 |-> a.col, r1 |-> a.row, c2 |-> b.col, r2 |-> b.row]

Cell(grid, r, c) ==
    IF r - 1 \in DOMAIN grid /\ c \in 1..NCols THEN grid[r - 1][c] ELSE <<>>
Max(S) == CHOOSE x \in S : \A y \in S : y <= x

\* The values of one range: its rows down to the last one holding data, each cut
\* after its last non-empty cell; a row with no data is an empty list.
UsedCols(grid, r, c1, c2) == {c \in c1..c2 : Cell(grid, r, c) # <<>>}
CutRow(grid, r, c1, used) ==
    IF used = {} THEN <<>>
    ELSE [k \in 1..(Max(used) - c1 + 1) |-> Cell(grid, r, c1 + k - 1)]
CutRows(grid, p, full) ==
    IF full = {} THEN <<>>
    ELSE [k \in 1..(Max(full) - p.r1 + 1) |->
             CutRow(grid, p.r1 + k - 1, p.c1, UsedCols(grid, p.r1 + k - 1, p.c1, p.c2))]
RangeCells(grid, p) ==
    CutRows(grid, p,
            {r \in p.r1..(IF p.r2 # 0 THEN p.r2 ELSE Len(grid) + 1) :
                UsedCols(grid, r, p.c1, p.c2) # {}})
RangeValues(grid, rng) == RangeCells(grid, ParseA1(rng))

\* Worksheet.get(rng) and Worksheet.batch_get(ranges), display text
sheet_get(grid, rng) == RangeValues(grid, rng)
sheet_batch_get(grid, ranges) ==
    [k \in 1..Len(ranges) |-> RangeValues(grid, ranges[k])]

\* ws(sheet_name): the worksheet of that name
ws(workbook, sheet_name) == workbook[sheet_name]

-----------------------------------------------------------------------------
(* Lookup *)

\* line 129: col_vals = [(r[0] if r else "") for r in got]
ColVals(got) == [i \in 1..Len(got) |-> IF got[i] # <<>> THEN got[i][1] ELSE <<>>]

\* line 130: hits = [i + 2 for i, v in enumerate(col_vals) if digits_only(v) == qd]
RECURSIVE HitsFrom(_, _, _)
HitsFrom(col_vals, qd, i) ==
    IF i >= Len(col_vals) THEN <<>>
    ELSE (IF digits_only(col_vals[i + 1]) = qd THEN <<i + 2>> ELSE <<>>)
         \o HitsFrom(col_vals, qd, i + 1)
\* A lookup that stops at the first matching row
HitsFirstOnly(col_vals, qd) ==
    SubSeq(HitsFrom(col_vals, qd, 0), 1, IF HitsFrom(col_vals, qd, 0) = <<>> THEN 0 ELSE 1)
Hits(col_vals, qd) == HitsFrom(col_vals, qd, 0)

\* line 135: the ranges of one batch_get, [a1(r, s, e) for (s, e) in ranges]
BatchRanges(r, ranges) == [k \in 1..Len(ranges) |-> a1(r, ranges[k][1], ranges[k][2])]

GetRead(rng) == [op |-> "get", ranges |-> <<rng>>]
BatchRead(ranges) == [op |-> "batch_get", ranges |-> ranges]

\* lines 132-139: one batch_get per hit, in order; the fail-th one raises (0: none).
\* [rows, reads, exc]
Raised(read) == [rows |-> <<>>, reads |-> <<read>>, exc |-> "remote"]
\* One more read, and the row it gave, in front of what the later reads gave
Then(read, row, more) ==
    [rows |-> row \o more.rows, reads |-> <<read>> \o more.reads, exc |-> more.exc]
RECURSIVE FetchRows(_, _, _, _)
FetchRows(sheet, hits, ranges, fail) ==
    IF hits = <<>> THEN [rows |-> <<>>, reads |-> <<>>, exc |-> "none"]
    ELSE IF fail = 1 THEN Raised(BatchRead(BatchRanges(hits[1], ranges)))
    ELSE Then(BatchRead(BatchRanges(hits[1], ranges)),
              <<flatten(sheet_batch_get(sheet, BatchRanges(hits[1], ranges)))>>,
              FetchRows(sheet, Tail(hits), ranges, IF fail = 0 THEN 0 ELSE fail - 1))

\* find_rows_in_col; fail numbers the remote read that raises: 1 the column read,
\* 1 + j the j-th batch read, 0 none.  [rows, reads, exc]
\* lines 124-125: rng = f"{col_letter}2:{col_letter}"
ColRange(col_letter) == col_letter \o Chars(<<"2", ":">>) \o col_letter
\* lines 126-140, with qd and rng at hand
FindIn(sheet, qd, rng, ranges, fail) ==
    IF fail = 1 THEN Raised(GetRead(rng))
    ELSE Then(GetRead(rng), <<>>,
              FetchRows(sheet, Hits(ColVals(sheet_get(sheet, rng)), qd), ranges,
                        IF fail = 0 THEN 0 ELSE fail - 1))
find_rows_in_col(sheet, col_idx, query, ranges, fail) ==
    IF digits_only(query) = <<>> THEN [rows |-> <<>>, reads |-> <<>>, exc |-> "none"]
    ELSE FindIn(sheet, digits_only(query), ColRange(col_to_a1(col_idx)), ranges, fail)

-----------------------------------------------------------------------------
(* Report *)

\* f"<b>{label}:</b> {esc(row[idx])}"
Line(label, row, idx) == Lit(label) \o Chars(<<" ">>) \o esc(row[idx + 1])
FieldLines(fields, row) ==
    [k \in 1..Len(fields) |-> Line(fields[k][1], row, fields[k][2])]
InRange(fields, row) == \A k \in 1..Len(fields) : fields[k][2] < Len(row)

GREEN_HEAD ==
    << <<"<b>Dogovor:</b>", 0>>, <<"<b>Data:</b>", 7>>, <<"<b>Menedjer:</b>", 8>>,
       <<"<b>Factura status:</b>", 9>> >>
GREEN_ITEM ==
    << <<"<b>Gruppa tovar:</b>", 1>>, <<"<b>Naimenovanie tovaro:</b>", 2>>,
       <<"<b>Ed.izm:</b>", 3>>, <<"<b>Kol-vo:</b>", 4>>, <<"<b>Cena:</b>", 5>>,
       <<"<b>Summa:</b>", 6>> >>
SUN_HEAD ==
    << <<"<b>Data:</b>", 0>>, <<"<b>Kuvvat:</b>", 1>>, <<"<b>Kompania nomi:</b>", 2>>,
       <<"<b>Sartnoma rakami:</b>", 3>>, <<"<b>Sartnoma sanasi:</b>", 4>>,
       <<"<b>STIR:</b>", 5>>, <<"<b>MANZIL:</b>", 6>>, <<"<b>Nomer:</b>", 13>>,
       <<"<b>Status:</b>", 14>> >>
SUN_ITEM ==
    << <<"<b>Gruppa tovar:</b>", 7>>, <<"<b>Maxsulot nomi:</b>", 8>>,
       <<"<b>Miqdori:</b>", 10>>, <<"<b>Cena:</b>", 11>>, <<"<b>Summa:</b>", 12>> >>
NOTFOUND_GREEN == Lit("# GET-GREEN: topilmadi.")
NOTFOUND_SUN == Lit("# SunHightech: topilmadi.")

RECURSIVE ItemParts(_, _)
ItemParts(item, rows) ==
    IF rows = <<>> THEN <<>>
    ELSE FieldLines(item, rows[1]) \o << <<>> >> \o ItemParts(item, Tail(rows))

\* The body both formatters share: head block of rows[0], one item block per row,
\* joined and stripped; a list index out of range raises.  [text, exc]
Grouped(rows, notfound, head, item) ==
    IF rows = <<>> THEN [text |-> notfound, exc |-> "none"]
    ELSE IF ~(InRange(head, rows[1]) /\ \A j \in 1..Len(rows) : InRange(item, rows[j]))
    THEN [text |-> <<>>, exc |-> "IndexError"]
    ELSE [text |-> Strip(JoinNL(FieldLines(head, rows[1]) \o << <<>> >> \o ItemParts(item, rows))),
          exc |-> "none"]

format_green_grouped(rows) == Grouped(rows, NOTFOUND_GREEN, GREEN_HEAD, GREEN_ITEM)
format_sun_grouped(rows) == Grouped(rows, NOTFOUND_SUN, SUN_HEAD, SUN_ITEM)

\* lines 215-222: the chunk loop over text.split("\n").  Its state is the chunk
\* being filled, the size counted for it, and out, the messages sent so far.
\* lines 217-221: one pass of the loop body
Feed(st, line) ==
    IF st.size + StrLen(line) + 1 > SOFT_LIMIT
    THEN [chunk |-> <<line>>, size |-> StrLen(line) + 1,
          out |-> Append(st.out, JoinNL(st.chunk))]
    ELSE [chunk |-> Append(st.chunk, line), size |-> st.size + StrLen(line) + 1,
          out |-> st.out]
\* The state after the first i lines
RECURSIVE ChunkState(_, _)
ChunkState(lines, i) ==
    IF i = 0 THEN [chunk |-> <<>>, size |-> 0, out |-> <<>>]
    ELSE Feed(ChunkState(lines, i - 1), lines[i])
\* line 222: the last chunk, if it holds a line
LastFlush(st) == IF st.chunk # <<>> THEN Append(st.out, JoinNL(st.chunk)) ELSE st.out
ChunkLoop(lines) == LastFlush(ChunkState(lines, Len(lines)))

\* send_grouped: the messages it sends, or the exception of the formatter.  [msgs, exc]
\* lines 211-222, with the formatter's result f at hand
SendText(f) ==
    IF f.exc # "none" THEN [msgs |-> <<>>, exc |-> f.exc]
    ELSE IF StrLen(f.text) <= HARD_LIMIT THEN [msgs |-> <<f.text>>, exc |-> "none"]
    ELSE [msgs |-> ChunkLoop(SplitNL(f.text)), exc |-> "none"]
send_grouped(rows, mode) ==
    SendText(IF mode = "green" THEN format_green_grouped(rows) ELSE format_sun_grouped(rows))

-----------------------------------------------------------------------------
(* Handlers *)

StrEq(a, b) == Norm(a) = Norm(b)
SP == Chars(<<" ">>)

DENIED == Lit("# Ruxsat yo'q.")
WELCOME ==
    Lit("# Bot ishga tushdi.") \o NLs
    \o Lit("Quyidagidan birini tanlang, so'ng raqam yuboring:")
USAGE ==
    Lit("# /start - menyu") \o NLs
    \o Lit("SunHightech > Q ustunidan qidiradi (B:L, O:Q, S)") \o NLs
    \o Lit("GET-GREEN > P ustunidan qidiradi (B:H, R, S, AA)")
ACK_SUN == Lit("# SunHightech tanlandi. Endi raqam yuboring.")
ACK_GREEN == Lit("# GET-GREEN tanlandi. Endi raqam yuboring.")
PROMPT_MODE == Lit("Avval menyudan tanlang (SunHightech yoki GET-GREEN).")
PROMPT_DIGITS == Lit("# Iltimos, faqat raqam yuboring. Masalan: 1163")

\* str(e) of the exception the router catches
ExcText(exc) ==
    IF exc = "IndexError" THEN Lit("list index out of range") ELSE Lit("APIError")
\* line 290: the one error line
ErrorLine(exc) == Lit("## Xatolik:") \o SP \o esc(ExcText(exc))

SUN_WORDS ==
    {Norm(Chars(<<"s", "u", "n", "h", "i", "g", "h", "t", "e", "c", "h">>)),
     Norm(Chars(<<"s", "u", "n", " ", "h", "i", "g", "h", "t", "e", "c", "h">>)),
     Norm(Chars(<<"s", "u", "n">>))}
GREEN_WORDS ==
    {Norm(Chars(<<"g", "e", "t", "-", "g", "r", "e", "e", "n">>)),
     Norm(Chars(<<"g", "e", "t", "g", "r", "e", "e", "n">>)),
     Norm(Chars(<<"g", "r", "e", "e", "n">>))}

\* An allow-list that is never consulted
allowedAnyone(cid, uid) == TRUE
\* allowed(update)
allowed(cid, uid) ==
    IF ALLOWED_IDS = {} THEN TRUE
    ELSE IntStr(cid) \in ALLOWED_IDS \/ IntStr(uid) \in ALLOWED_IDS

\* One mode for the whole process instead of one per user
SetModeOfAll(data, uid, mode) == [u \in DOMAIN data |-> mode]
\* context.user_data["mode"] = mode, in the handler of an update of user uid
SetMode(data, uid, mode) == [data EXCEPT ![uid] = mode]

\* lines 281-290: the try block.  fail numbers the remote call that raises: 1 is
\* ws(), 2 the column read, 2 + j the j-th batch read, 0 none.  [sent, reads, err]
\* What the user is sent once send_grouped returned or raised
Sent(issued, g) ==
    IF g.exc # "none"
    THEN [sent |-> g.msgs \o <<ErrorLine(g.exc)>>, reads |-> issued, err |-> g.exc]
    ELSE [sent |-> g.msgs, reads |-> issued, err |-> "none"]
\* ... and once find_rows_in_col returned or raised
Found(f, which) ==
    IF f.exc # "none"
    THEN [sent |-> <<ErrorLine(f.exc)>>, reads |-> f.reads, err |-> f.exc]
    ELSE Sent(f.reads, send_grouped(f.rows, which))
Query(mode, q, workbook, fail) ==
    IF fail = 1 THEN [sent |-> <<ErrorLine("remote")>>, reads |-> <<>>, err |-> "remote"]
    ELSE IF mode = "sun"
    THEN Found(find_rows_in_col(ws(workbook, SHEET_SUN), COL_Q_SUN, q, SUN_RANGES,
                                IF fail = 0 THEN 0 ELSE fail - 1), "sun")
    ELSE Found(find_rows_in_col(ws(workbook, SHEET_GREEN), COL_P_GREEN, q, GREEN_RANGES,
                                IF fail = 0 THEN 0 ELSE fail - 1), "green")

NoBook == [n \in {SHEET_SUN, SHEET_GREEN} |-> <<>>]
NoUpdate == [kind |-> "none", chat |-> 0, user |-> 0, text |-> <<>>]
\* A handler returns: what it was called with, what it sent, read and caught
Return(kind, cid, uid, text, workbook, r) ==
    /\ pc' = "done"
    /\ upd' = [kind |-> kind, chat |-> cid, user |-> uid, text |-> text]
    /\ sent' = r.sent
    /\ reads' = r.reads
    /\ err' = r.err
    /\ remote' = workbook
    /\ ALLOWED_IDS' = ALLOWED_IDS
Reply(kind, cid, uid, text, msgs) ==
    Return(kind, cid, uid, text, NoBook, [sent |-> msgs, reads |-> <<>>, err |-> "none"])

\* start: the handler of the /start command
start(cid, uid) ==
    /\ pc = "idle"
    /\ IF ~allowed(cid, uid)
       THEN Reply("start", cid, uid, <<>>, <<DENIED>>) /\ user_data' = user_data
       ELSE /\ user_data' = SetMode(user_data, uid, "none")
            /\ Reply("start", cid, uid, <<>>, <<WELCOME>>)

\* A help command that also clears the selection, as start does
help_cmd_resets(cid, uid) ==
    /\ pc = "idle"
    /\ Reply("help", cid, uid, <<>>, <<USAGE>>)
    /\ user_data' = SetMode(user_data, uid, "none")
\* help_cmd: the handler of the /help command
help_cmd(cid, uid) ==
    /\ pc = "idle"
    /\ Reply("help", cid, uid, <<>>, <<USAGE>>)
    /\ user_data' = user_data

\* router: the handler of every text message that is no command
router(cid, uid, text, workbook, fail) ==
    /\ pc = "idle"
    /\ IF ~allowed(cid, uid)
       THEN Reply("text", cid, uid, text, <<DENIED>>) /\ user_data' = user_data
       ELSE IF Norm(Lower(Strip(text))) \in SUN_WORDS
       THEN Reply("text", cid, uid, text, <<ACK_SUN>>)
            /\ user_data' = SetMode(user_data, uid, "sun")
       ELSE IF Norm(Lower(Strip(text))) \in GREEN_WORDS
       THEN Reply("text", cid, uid, text, <<ACK_GREEN>>)
            /\ user_data' = SetMode(user_data, uid, "green")
       ELSE IF user_data[uid] = "none"
       THEN Reply("text", cid, uid, text, <<PROMPT_MODE>>) /\ user_data' = user_data
       ELSE IF digits_only(Strip(text)) = <<>>
       THEN Reply("text", cid, uid, text, <<PROMPT_DIGITS>>) /\ user_data' = user_data
       ELSE Return("text", cid, uid, text, workbook,
                   Query(user_data[uid], digits_only(Strip(text)), workbook, fail))
            /\ user_data' = user_data

\* The dispatcher of run_polling / run_webhook takes the next update.
NextUpdate ==
    /\ pc = "done"
    /\ pc' = "idle"
    /\ upd' = NoUpdate
    /\ sent' = <<>>
    /\ reads' = <<>>
    /\ err' = "none"
    /\ remote' = NoBook
    /\ UNCHANGED <<ALLOWED_IDS, user_data>>

-----------------------------------------------------------------------------
(* Inputs: who writes, what they write, and what the spreadsheet holds. *)

MaxRows == 2          \* data rows of a sheet, lookup runs
MaxRowsSession == 1   \* data rows of a sheet, session runs
MaxRowsLong == 2      \* data rows of a sheet, pagination runs
MaxFail == 3          \* the remote calls of one query that may be made to raise

Users == {1, 2}
\* <<chat id, user id>>: user 1 in the private chat, users 1 and 2 in a group chat
Senders == {<<1, 1>>, <<0 - 3, 1>>, <<0 - 3, 2>>}
AllowLists == SUBSET {IntStr(1), IntStr(2), IntStr(0 - 3)}

RECURSIVE ExpandRanges(_)
ExpandRanges(ranges) ==
    IF ranges = <<>> THEN <<>>
    ELSE LET lo == A1ToCol(ranges[1][1])
             hi == A1ToCol(ranges[1][2])
         IN [k \in 1..(hi - lo + 1) |-> lo + k - 1] \o ExpandRanges(Tail(ranges))
\* The sheet columns of the flattened fields 0, 1, 2, ... of a profile
SUN_COLS == ExpandRanges(SUN_RANGES)
GREEN_COLS == ExpandRanges(GREEN_RANGES)
FieldCols(mode) == IF mode = "sun" THEN SUN_COLS ELSE GREEN_COLS
SearchCol(mode) == IF mode = "sun" THEN COL_Q_SUN ELSE COL_P_GREEN
HeadOf(mode) == IF mode = "sun" THEN SUN_HEAD ELSE GREEN_HEAD
ItemOf(mode) == IF mode = "sun" THEN SUN_ITEM ELSE GREEN_ITEM
FieldOf(mode, c) == IndexOf(FieldCols(mode), c) - 1

\* The columns a row shape leaves empty: none, the last range, the end of the
\* first range, every field
BlankCols(shape, mode) ==
    CASE shape = "full" -> {}
      [] shape = "noLast" -> {FieldCols(mode)[Len(FieldCols(mode))]}
      [] shape = "trim" -> {A1ToCol((IF mode = "sun" THEN SUN_RANGES ELSE GREEN_RANGES)[1][2])}
      [] OTHER -> Range(FieldCols(mode))

\* The filler a padding profile adds to the cell of field fi
PadLen(pad, mode, fi) ==
    LET head == HeadOf(mode)
        item == ItemOf(mode)
    IN CASE pad = "kilo" -> IF fi \in {item[k][2] : k \in 1..Len(item)} THEN 1000 ELSE 0
         [] pad = "wide" -> 400
         [] pad = "first" -> IF fi = head[1][2] THEN SOFT_LIMIT ELSE 0
         [] pad = "sep" -> IF fi \in {head[Len(head)][2], item[1][2]} THEN SOFT_LIMIT ELSE 0
         [] pad = "over" -> IF fi = item[2][2] THEN HARD_LIMIT ELSE 0
         [] OTHER -> 0

\* The display text of a field cell: its address, markup characters in column C,
\* and the filler
FieldText(r, c, pad, mode) ==
    col_to_a1(c) \o IntStr(r)
    \o (IF c = 3 THEN Chars(<<"<", "&", ">">>) ELSE <<>>)
    \o (IF PadLen(pad, mode, FieldOf(mode, c)) > 0
        THEN <<Run("x", PadLen(pad, mode, FieldOf(mode, c)))>> ELSE <<>>)

\* Sheet row r of kind [cell, shape, pad] in the sheet of a profile
RowCells(r, kind, mode, filled) ==
    [c \in 1..NCols |->
        IF c = SearchCol(mode) THEN kind.cell
        ELSE IF c \in filled THEN FieldText(r, c, kind.pad, mode)
        ELSE <<>>]
MkRow(r, kind, mode) ==
    RowCells(r, kind, mode, Range(FieldCols(mode)) \ BlankCols(kind.shape, mode))
Grid(kinds, mode) == [i \in 1..Len(kinds) |-> MkRow(i + 1, kinds[i], mode)]
Book(kinds) ==
    [n \in {SHEET_SUN, SHEET_GREEN} |-> Grid(kinds, IF n = SHEET_SUN THEN "sun" ELSE "green")]
KindSeqs(kinds, max) == UNION {[1..n -> kinds] : n \in 0..max}

Seven == Chars(<<"7">>)
OneSeven == Chars(<<"1", ",", "7">>)
LookupKinds ==
    {[cell |-> <<>>, shape |-> "full", pad |-> "none"]}
    \cup [cell : {Seven, OneSeven}, shape : {"full", "noLast", "trim"}, pad : {"none"}]
SessionKinds == [cell : {Seven}, shape : {"full", "noLast"}, pad : {"none"}]
LongKinds ==
    [cell : {Seven}, shape : {"full"}, pad : {"none", "wide", "kilo", "first", "sep", "over"}]
    \cup [cell : {OneSeven}, shape : {"full"}, pad : {"none"}]

KwSun == Chars(<<"S", "u", "n">>)
KwGreen == Chars(<<" ", "g", "r", "e", "e", "n", " ">>)
SessionTexts == {KwSun, KwGreen, Seven, Chars(<<"a", "b", "c">>)}
LookupTexts == {KwSun, KwGreen, Seven, Chars(<<" ", "1", "-", "7">>), Chars(<<"N", "o">>)}
LongTexts == {KwSun, KwGreen, Seven}

-----------------------------------------------------------------------------
(* Specifications *)

Idle ==
    /\ user_data = [u \in Users |-> "none"]
    /\ pc = "idle"
    /\ upd = NoUpdate
    /\ remote = NoBook
    /\ sent = <<>>
    /\ reads = <<>>
    /\ err = "none"

\* Sessions: every handler, every sender, every allow-list
Init == ALLOWED_IDS \in AllowLists /\ Idle
Next ==
    \/ \E s \in Senders : start(s[1], s[2])
    \/ \E s \in Senders : help_cmd(s[1], s[2])
    \/ \E s \in Senders, t \in SessionTexts, ks \in KindSeqs(SessionKinds, MaxRowsSession),
          fail \in 0..MaxFail : router(s[1], s[2], t, Book(ks), fail)
    \/ NextUpdate
Spec == Init /\ [][Next]_vars

\* Lookup: one user of an unrestricted bot, sheets of up to MaxRows rows
InitOpen == ALLOWED_IDS = {} /\ Idle
NextLookup ==
    \/ \E t \in LookupTexts, ks \in KindSeqs(LookupKinds, MaxRows), fail \in 0..MaxFail :
          router(1, 1, t, Book(ks), fail)
    \/ NextUpdate
SpecLookup == InitOpen /\ [][NextLookup]_vars

\* Pagination: one user of an unrestricted bot, sheets with long cells
NextLong ==
    \/ \E t \in LongTexts, ks \in KindSeqs(LongKinds, MaxRowsLong) :
          router(1, 1, t, Book(ks), 0)
    \/ NextUpdate
SpecLong == InitOpen /\ [][NextLong]_vars

-----------------------------------------------------------------------------
(* What the claims speak of *)

Handled == pc = "done"
Step == pc = "idle" /\ pc' = "done"
\* The caller of update u is in neither way on a non-empty allow-list.
Unauthorized(u) ==
    /\ ALLOWED_IDS # {}
    /\ IntStr(u.chat) \notin ALLOWED_IDS
    /\ IntStr(u.user) \notin ALLOWED_IDS
IsKeyword(text, words) == Norm(Lower(Strip(text))) \in words
\* The last update was a query: a text that selects nothing, from an authorized
\* caller whose source is selected.
QueryMsg ==
    /\ Handled
    /\ upd.kind = "text"
    /\ ~Unauthorized(upd)
    /\ ~IsKeyword(upd.text, SUN_WORDS \cup GREEN_WORDS)
    /\ user_data[upd.user] # "none"
QMode == user_data[upd.user]
QDigits == digits_only(upd.text)
QGrid == remote[IF QMode = "sun" THEN SHEET_SUN ELSE SHEET_GREEN]
QRanges == IF QMode = "sun" THEN SUN_RANGES ELSE GREEN_RANGES
\* The sheet rows whose search cell has the digits of the query, ascending
RECURSIVE Ascending(_)
Ascending(S) ==
    IF S = {} THEN <<>>
    ELSE LET m == CHOOSE x \in S : \A y \in S : x <= y IN <<m>> \o Ascending(S \ {m})
Matched ==
    Ascending({r \in 2..(Len(QGrid) + 1) :
                  StrEq(digits_only(Cell(QGrid, r, SearchCol(QMode))), QDigits)})
\* A query with digits whose remote reads all answered
Answered == QueryMsg /\ QDigits # <<>> /\ err # "remote"
\* The text the formatter built for the last query
QText == Grouped(find_rows_in_col(QGrid, SearchCol(QMode), upd.text, QRanges, 0).rows,
                 IF QMode = "sun" THEN NOTFOUND_SUN ELSE NOTFOUND_GREEN,
                 HeadOf(QMode), ItemOf(QMode)).text
Paginated == Answered /\ err = "none" /\ StrLen(QText) > HARD_LIMIT

\* The lines of everything sent, the messages taken one after the other
SentLines == SplitNL(JoinNL(sent))
StartsWith(line, label) == line # <<>> /\ line[1].c = label
Starting(lines, label) ==
    Flat([i \in 1..Len(lines) |-> IF StartsWith(lines[i], label) THEN <<lines[i]>> ELSE <<>>])
LinesOf(label) == Starting(SentLines, label)
\* The line the report shows for field f = <<label, index>> of sheet row r
Shown(f, r) ==
    Lit(f[1]) \o SP \o esc(Cell(QGrid, r, FieldCols(QMode)[f[2] + 1]))
SameText(a, b) == Norm(RStrip(a)) = Norm(RStrip(b))
\* sent is a report of the matched rows: every head label once, the first head
\* line that of the lowest matched row, and one item block per matched row, the
\* blocks in the order of the rows.
ReportOfMatched ==
    /\ \A k \in 1..Len(HeadOf(QMode)) : Len(LinesOf(HeadOf(QMode)[k][1])) = 1
    /\ SameText(LinesOf(HeadOf(QMode)[1][1])[1], Shown(HeadOf(QMode)[1], Matched[1]))
    /\ \A k \in 1..Len(ItemOf(QMode)) : Len(LinesOf(ItemOf(QMode)[k][1])) = Len(Matched)
    /\ \A j \in 1..Len(Matched) :
          SameText(LinesOf(ItemOf(QMode)[1][1])[j], Shown(ItemOf(QMode)[1], Matched[j]))
\* The flattened fields of matched row r, as the extractor returns them
FieldsOf(r) == flatten(sheet_batch_get(QGrid, BatchRanges(r, QRanges)))
ShortRow(r) == Len(FieldsOf(r)) < Len(FieldCols(QMode))

-----------------------------------------------------------------------------
(* Claims *)

\* C1: for a query whose digits match the search cell of k >= 1 rows, the report is
\* built from exactly those rows: the head block once, from the lowest matching row,
\* then k item blocks, one per matching row, in ascending row order.
C1_ReportFromMatchedRows ==
    (Answered /\ Matched # <<>>) => ReportOfMatched
\* The same, for matched rows that all have every field of the profile: this holds.
C1_ReportWhenRowsComplete ==
    (Answered /\ Matched # <<>> /\ \A j \in 1..Len(Matched) : ~ShortRow(Matched[j]))
        => ReportOfMatched
C1_Witness ==
    Answered /\ Len(Matched) = 2 /\ err = "none"

\* C2: a query costs one search-column read and then one batched read per matched
\* row, each naming that row and every range of the profile (N matches, N + 1 reads);
\* with no match only the column is read and the reply is the not-found text alone;
\* a text with no digit reads nothing.  A read that raises ends the reads.
C2_ReadsPerQuery ==
    QueryMsg =>
        /\ QDigits = <<>> => reads = <<>> /\ remote = NoBook
        /\ Answered =>
              /\ Len(reads) = Len(Matched) + 1
              /\ reads[1] = GetRead(ColRange(col_to_a1(SearchCol(QMode))))
              /\ \A j \in 1..Len(Matched) :
                    /\ reads[j + 1].op = "batch_get"
                    /\ Len(reads[j + 1].ranges) = Len(QRanges)
                    /\ \A k \in 1..Len(QRanges) :
                          ParseA1(reads[j + 1].ranges[k]).r1 = Matched[j]
        /\ (Answered /\ Matched = <<>>) =>
              sent = <<IF QMode = "sun" THEN NOTFOUND_SUN ELSE NOTFOUND_GREEN>>
        /\ (QDigits # <<>> /\ err = "remote") => Len(reads) <= Len(Matched) + 1
C2_Witness ==
    Answered /\ Len(Matched) = 2 /\ Len(reads) = 3 /\ Len(QGrid) = 2

\* C3: when a matched row has fewer fields than the profile declares, the formatter
\* does not raise: the user is sent the report, not an error line.
C3_ShortRowStillReported ==
    (Answered /\ \E j \in 1..Len(Matched) : ShortRow(Matched[j]))
        => (err = "none" /\ sent # <<ErrorLine("IndexError")>>)

\* C4: every message the paginator sends is at most HARD_LIMIT characters long.
C4_ChunkWithinCeiling ==
    (QueryMsg /\ err = "none") => \A i \in 1..Len(sent) : StrLen(sent[i]) <= HARD_LIMIT

\* C5: for a report text longer than HARD_LIMIT, the chunks sent, joined in order by
\* one newline, are the report text.
C5_ChunksRebuildText ==
    Paginated => Norm(JoinNL(sent)) = Norm(QText)

\* C6: handling an update of a caller who is not on the non-empty allow-list changes
\* no session state and issues no remote read.
C6_UnauthorizedNoEffect ==
    [][(Step /\ Unauthorized(upd')) => (user_data' = user_data /\ reads' = <<>>)]_vars
C6_Witness ==
    /\ Handled /\ Unauthorized(upd) /\ upd.kind = "text"
    /\ IsKeyword(upd.text, SUN_WORDS) /\ user_data[upd.user] = "green"

\* C7: the only reply to any update of a caller who is not on the non-empty
\* allow-list is the denial message.
C7_OnlyDenial ==
    (Handled /\ Unauthorized(upd)) => sent = <<DENIED>>

\* C8: the selected source changes only on a source keyword (set to that source) or
\* on the menu command (reset to none); every other update, whatever its outcome,
\* leaves it as it was.
C8_SourceChangesOnlyOnSelect ==
    [][user_data' # user_data =>
          /\ Step
          /\ \/ /\ upd'.kind = "text" /\ IsKeyword(upd'.text, SUN_WORDS)
                /\ user_data' = [user_data EXCEPT ![upd'.user] = "sun"]
             \/ /\ upd'.kind = "text" /\ IsKeyword(upd'.text, GREEN_WORDS)
                /\ user_data' = [user_data EXCEPT ![upd'.user] = "green"]
             \/ /\ upd'.kind = "start"
                /\ user_data' = [user_data EXCEPT ![upd'.user] = "none"]]_vars
C8_Witness ==
    QueryMsg /\ err = "IndexError" /\ user_data[upd.user] = "green"

\* The source an update of sender s = <<chat, user>> is handled with (line 271)
SourceFor(s) == user_data[s[2]]
C10_NoEmptyChunk ==
    Paginated => \A i \in 1..Len(sent) : StrLen(sent[i]) > 0

====
